---- MODULE Spec2Model ----
(***************************************************************************)
(* Model of RangeStrategy (src/range_strategy.py): the range-trading       *)
(* decision engine.  The state is the object's fields; every public method *)
(* is one action, called by a client in any order (run() is one such       *)
(* client).  The broker (ib.placeOrder, ib.accountSummary), the bar feed   *)
(* and the wall clock are the environment: their answers are inputs.       *)
(* Spec explores the object; SpecBroker adds what the broker does with the *)
(* orders beyond accepting them; SpecUI explores the two StrategyUI        *)
(* classes (src/strategy_ui.py, src/strategy_ui_old.py) and the threads    *)
(* they start on run(); SpecSize explores calculate_position_size over a   *)
(* wider range of inputs; SpecWindow feeds bars until the window is full.  *)
(*                                                                         *)
(* Numbers are Python floats in the source.  They are modelled as exact    *)
(* rationals [n, d] in lowest terms with d > 0, plus NaN (d = 0), so that  *)
(* prices, ratios such as 1.5 and 0.015, floor() and the comparisons keep  *)
(* their values; rounding error is not modelled.  series[-1] is read as    *)
(* the latest element of the indicator series.                             *)
(***************************************************************************)
EXTENDS Integers, Sequences, FiniteSets, TLC

VARIABLES
    config,            \* self.config                       (line 46)
    position,          \* self.position: None or the dict   (line 47, 214)
    historical_data,   \* self.historical_data: row count and last timestamp
    current_price,     \* self.current_price                (line 51, 146)
    adx,               \* latest self.adx value, None before the first calculation
    bollinger_lower,   \* latest self.bollinger['lower'] value
    rsi,               \* latest self.rsi value
    atr,               \* latest self.atr value
    trades_today,      \* self.trades_today                 (line 61)
    daily_pnl,         \* self.daily_pnl                    (line 62)
    last_trade,        \* self.last_trade                   (line 63, 258)
    trade_log,         \* the "Trade closed" records written to the logger (line 254)
    orders,            \* number of orders the broker has received via placeOrder
    entry_status,      \* broker-side status of the latest parent (entry) order
    fill_price,        \* price the broker reported for the fill of that order, None before
    exit_status,       \* broker-side joint status of the take-profit and stop-loss orders
    ui,                \* the StrategyUI class in use: "none", "old" or "new"
    ib_connected,      \* self.ib.isConnected() of the UI's session
    ui_strategy,       \* StrategyUI.strategy: 0 for None, or the number of the instance it holds
    threads,           \* threads[k]: where the thread running run() of instance k stands
    stop_requested,    \* the instances on which Stop Strategy has been pressed
    op,                \* the method called last
    ret                \* how that call ended: its return path or the exception raised

\* the fields of one RangeStrategy instance and the broker's view of its orders
strategyVars == <<config, position, historical_data, current_price, adx,
                  bollinger_lower, rsi, atr, trades_today, daily_pnl, last_trade,
                  trade_log, orders, entry_status, fill_price, exit_status>>

\* the fields of StrategyUI and the threads it started
uiVars == <<ui, ib_connected, ui_strategy, threads, stop_requested>>

vars == <<config, position, historical_data, current_price, adx, bollinger_lower,
          rsi, atr, trades_today, daily_pnl, last_trade, trade_log, orders,
          entry_status, fill_price, exit_status, ui, ib_connected, ui_strategy,
          threads, stop_requested, op, ret>>

-----------------------------------------------------------------------------
(* Bounds of the exploration *)

MaxTime == 1            \* bar timestamps are 0..MaxTime
BarsPerDay == 1         \* timestamps per calendar day
MaxTrades == 2          \* max_trades_per_day of the explored configurations
MaxBars == 6            \* bars fed to one strategy instance
MaxThreads == 2         \* threads one StrategyUI starts
LongAtrPeriod == 25     \* an atr_period beyond the other periods + 20
AdxPeriod == 2          \* adx_period of the explored configurations
BollingerPeriod == 2    \* bollinger_ma_period
RsiPeriod == 2          \* rsi_period
AtrPeriod == 3          \* atr_period

(* Program constants *)
WindowMargin == 20      \* rows kept beyond the largest period (line 144)

-----------------------------------------------------------------------------
(* Python values *)

None == [none |-> TRUE]
NaN == [n |-> 0, d |-> 0]

Abs(x) == IF x < 0 THEN -x ELSE x

RECURSIVE GCD(_, _)
GCD(a, b) == IF b = 0 THEN a ELSE GCD(b, a % b)

\* the float n/d, d # 0
Rat(n, d) ==
    LET g == GCD(Abs(n), Abs(d))
        s == IF d < 0 THEN -1 ELSE 1
    IN [n |-> (s * n) \div g, d |-> (s * d) \div g]

Num(i) == [n |-> i, d |-> 1]

IsNaN(x) == x.d = 0

FMul(a, b) == IF IsNaN(a) \/ IsNaN(b) THEN NaN ELSE Rat(a.n * b.n, a.d * b.d)
FAdd(a, b) == IF IsNaN(a) \/ IsNaN(b) THEN NaN ELSE Rat(a.n * b.d + b.n * a.d, a.d * b.d)
FSub(a, b) == IF IsNaN(a) \/ IsNaN(b) THEN NaN ELSE Rat(a.n * b.d - b.n * a.d, a.d * b.d)
FNeg(a) == IF IsNaN(a) THEN NaN ELSE [n |-> -a.n, d |-> a.d]
\* every comparison with NaN is False
FLe(a, b) == ~IsNaN(a) /\ ~IsNaN(b) /\ a.n * b.d <= b.n * a.d
FGe(a, b) == FLe(b, a)
FGt(a, b) == ~IsNaN(a) /\ ~IsNaN(b) /\ a.n * b.d > b.n * a.d
\* math.floor of a finite float
Floor(a) == a.n \div a.d

Max2(a, b) == IF a >= b THEN a ELSE b
Min2(a, b) == IF a <= b THEN a ELSE b

-----------------------------------------------------------------------------
(* Configuration *)

\* time(h, m) as minutes since midnight
TimeOfDay(h, m) == h * 60 + m

\* the defaults table of _validate_config
defaults ==
    [adx_period |-> 14,
     adx_threshold |-> Num(20),
     bollinger_ma_period |-> 20,
     bollinger_std_dev |-> Num(2),
     rsi_period |-> 14,
     rsi_oversold |-> Num(30),
     rsi_overbought |-> Num(70),
     atr_period |-> 14,
     stop_loss_atr_multiplier |-> Rat(3, 2),
     profit_target_pct |-> Rat(15, 1000),
     risk_per_trade_pct |-> Rat(1, 100),
     max_trades_per_day |-> 5,
     daily_loss_limit_pct |-> Rat(2, 100),
     trade_start_time |-> TimeOfDay(9, 35),
     trade_end_time |-> TimeOfDay(15, 55)]

\* {**defaults, **(config or {})}: no value is validated
_validate_config(c) ==
    [k \in (DOMAIN defaults) \cup (DOMAIN c) |->
        IF k \in DOMAIN c THEN c[k] ELSE defaults[k]]

\* short periods and a small daily trade limit keep the exploration small
SmallConfig ==
    [adx_period |-> AdxPeriod,
     bollinger_ma_period |-> BollingerPeriod,
     rsi_period |-> RsiPeriod,
     atr_period |-> AtrPeriod,
     max_trades_per_day |-> MaxTrades]

\* the configurations a caller passes: the small one, and the small one with a
\* profit target below the entry price (accepted, since nothing is validated)
With(c, key, value) ==
    [k \in (DOMAIN c) \cup {key} |-> IF k = key THEN value ELSE c[k]]

\* the configurations a caller passes: the small one; one with a loss limit of
\* 30 in pnl units; one with a profit target below the entry price (accepted,
\* since nothing is validated)
UserConfigs ==
    {SmallConfig,
     With(SmallConfig, "daily_loss_limit_pct", Num(30)),
     With(SmallConfig, "profit_target_pct", Rat(-5, 100))}

-----------------------------------------------------------------------------
(* Inputs from the environment *)

Timestamps == 0..MaxTime
Prices == {Num(97), Num(100), Num(103)}
\* bar.time and bar.close of the latest bar
Bars == [time : Timestamps, close : Prices]
\* what TA-Lib computes from the window, where it is past its lookback
\* ADX and RSI exactly at their thresholds (20 and 30), a lower band of 100 and
\* an ATR of 2; then the same with one of ADX, RSI, ATR changed
RangeBound == [adx |-> Num(20), lower |-> Num(100), rsi |-> Num(30), atr |-> Num(2)]
IndicatorValues ==
    {RangeBound,
     [RangeBound EXCEPT !.adx = Num(25)],
     [RangeBound EXCEPT !.rsi = Num(35)],
     [RangeBound EXCEPT !.atr = Num(0)]}
\* accountSummary('TotalCashValue')
Equities == {Num(0), Num(3000)}
\* datetime.now().time(), minutes since midnight
Clock == {TimeOfDay(9, 34), TimeOfDay(9, 35), TimeOfDay(15, 55), TimeOfDay(15, 56)}
\* ib.isConnected(): placeOrder raises ConnectionError when it is not
Connected == BOOLEAN
\* the price at which the broker fills the market order: above every close at
\* which an entry is decided (97 or 100)
FillPrices == {Num(101)}

\* calendar day of a bar timestamp
Day(t) == t \div BarsPerDay

-----------------------------------------------------------------------------
(* __init__ *)

InitStrategy ==
    /\ config \in {_validate_config(c) : c \in UserConfigs}
    /\ position = None
    /\ historical_data = [rows |-> 0, timestamp |-> None]
    /\ current_price = None
    /\ adx = None
    /\ bollinger_lower = None
    /\ rsi = None
    /\ atr = None
    /\ trades_today = 0
    /\ daily_pnl = Num(0)
    /\ last_trade = None
    /\ trade_log = <<>>
    /\ orders = 0
    /\ entry_status = "none"
    /\ fill_price = None
    /\ exit_status = "none"
    /\ op = "__init__"
    /\ ret = "None"

\* a RangeStrategy used without a StrategyUI (run_strategy.py, or any caller)
Init ==
    /\ InitStrategy
    /\ ui = "none"
    /\ ib_connected = FALSE
    /\ ui_strategy = 0
    /\ threads = <<>>
    /\ stop_requested = {}

-----------------------------------------------------------------------------
(* update_market_data and calculate_indicators *)

\* max(adx_period, bollinger_ma_period, rsi_period): atr_period is not in it
LargestPeriod ==
    Max2(config.adx_period, Max2(config.bollinger_ma_period, config.rsi_period))

\* .tail(max(...) + 20)
WindowCap == LargestPeriod + WindowMargin

\* the last element of a TA-Lib output over `rows` bars: NaN inside the
\* function's lookback, the computed value past it
TalibLast(rows, lookback, value) == IF rows > lookback THEN value ELSE NaN

\* TA-Lib lookbacks: ADX 2p - 1, BBANDS (SMA) p - 1, RSI p, ATR p
AdxLookback == 2 * config.adx_period - 1
BollingerLookback == config.bollinger_ma_period - 1
RsiLookback == config.rsi_period
AtrLookback == config.atr_period

\* calculate_indicators over a window of `rows` bars
calculate_indicators(rows, ind) ==
    IF rows < LargestPeriod
    THEN UNCHANGED <<adx, bollinger_lower, rsi, atr>>
    ELSE /\ adx' = TalibLast(rows, AdxLookback, ind.adx)
         /\ bollinger_lower' = TalibLast(rows, BollingerLookback, ind.lower)
         /\ rsi' = TalibLast(rows, RsiLookback, ind.rsi)
         /\ atr' = TalibLast(rows, AtrLookback, ind.atr)

update_market_data(bar, ind) ==
    LET rows == Min2(historical_data.rows + 1, WindowCap)
    IN /\ historical_data' = [rows |-> rows, timestamp |-> bar.time]
       /\ current_price' = bar.close
       /\ calculate_indicators(rows, ind)
       /\ op' = "update_market_data"
       /\ ret' = "None"
       /\ UNCHANGED <<config, position, trades_today, daily_pnl, last_trade,
                      trade_log, orders, entry_status, fill_price, exit_status>>
       /\ UNCHANGED uiVars

-----------------------------------------------------------------------------
(* evaluate_entry *)

\* evaluate_entry without the check of self.position
EntryDecision_NoPositionCheck(now) ==
    IF adx = None THEN "TypeError"
    ELSE IF FGt(adx, config.adx_threshold) THEN "False"
    ELSE IF ~FLe(current_price, bollinger_lower) THEN "False"
    ELSE IF FGt(rsi, config.rsi_oversold) THEN "False"
    ELSE IF ~(config.trade_start_time <= now /\ now <= config.trade_end_time) THEN "False"
    ELSE IF trades_today >= config.max_trades_per_day THEN "False"
    ELSE IF FLe(daily_pnl, FNeg(config.daily_loss_limit_pct)) THEN "False"
    ELSE "True"

\* evaluate_entry with the trade limit compared by > instead of >=
EntryDecision_TradeLimitOffByOne(now) ==
    IF position # None THEN "False"
    ELSE IF adx = None THEN "TypeError"
    ELSE IF FGt(adx, config.adx_threshold) THEN "False"
    ELSE IF ~FLe(current_price, bollinger_lower) THEN "False"
    ELSE IF FGt(rsi, config.rsi_oversold) THEN "False"
    ELSE IF ~(config.trade_start_time <= now /\ now <= config.trade_end_time) THEN "False"
    ELSE IF trades_today > config.max_trades_per_day THEN "False"
    ELSE IF FLe(daily_pnl, FNeg(config.daily_loss_limit_pct)) THEN "False"
    ELSE "True"

\* evaluate_entry with the loss limit compared by < instead of <=
EntryDecision_LossLimitStrict(now) ==
    IF position # None THEN "False"
    ELSE IF adx = None THEN "TypeError"
    ELSE IF FGt(adx, config.adx_threshold) THEN "False"
    ELSE IF ~FLe(current_price, bollinger_lower) THEN "False"
    ELSE IF FGt(rsi, config.rsi_oversold) THEN "False"
    ELSE IF ~(config.trade_start_time <= now /\ now <= config.trade_end_time) THEN "False"
    ELSE IF trades_today >= config.max_trades_per_day THEN "False"
    ELSE IF FGt(FNeg(config.daily_loss_limit_pct), daily_pnl) THEN "False"
    ELSE "True"

\* "True", "False", or "TypeError" when an indicator is still None
EntryDecision(now) ==
    IF position # None THEN "False"
    ELSE IF adx = None THEN "TypeError"
    ELSE IF FGt(adx, config.adx_threshold) THEN "False"
    ELSE IF ~FLe(current_price, bollinger_lower) THEN "False"
    ELSE IF FGt(rsi, config.rsi_oversold) THEN "False"
    ELSE IF ~(config.trade_start_time <= now /\ now <= config.trade_end_time) THEN "False"
    ELSE IF trades_today >= config.max_trades_per_day THEN "False"
    ELSE IF FLe(daily_pnl, FNeg(config.daily_loss_limit_pct)) THEN "False"
    ELSE "True"

evaluate_entry(now) ==
    /\ op' = "evaluate_entry"
    /\ ret' = EntryDecision(now)
    /\ UNCHANGED <<config, position, historical_data, current_price, adx,
                   bollinger_lower, rsi, atr, trades_today, daily_pnl, last_trade,
                   trade_log, orders, entry_status, fill_price, exit_status>>
    /\ UNCHANGED uiVars

-----------------------------------------------------------------------------
(* calculate_position_size and execute_trade *)

StopDistance == FMul(atr, config.stop_loss_atr_multiplier)

\* calculate_position_size dividing by the ATR alone, the multiplier left out
calculate_position_size_NoMultiplier(equity) ==
    LET risk_amount == FMul(equity, config.risk_per_trade_pct)
    IN IF IsNaN(atr) \/ IsNaN(risk_amount) THEN [error |-> "ValueError"]
       ELSE IF atr.n = 0 THEN [error |-> "ZeroDivisionError"]
       ELSE [quantity |-> Floor(Rat(risk_amount.n * atr.d, risk_amount.d * atr.n))]

\* [quantity |-> q], or [error |-> e] for the exception the division or
\* math.floor raises.  With stop_distance = 0 the division by zero is
\* evaluated: Python floats raise ZeroDivisionError at once, numpy floats
\* give inf or nan and math.floor raises on it.
calculate_position_size(equity) ==
    LET risk_amount == FMul(equity, config.risk_per_trade_pct)
    IN IF IsNaN(StopDistance) \/ IsNaN(risk_amount) THEN [error |-> "ValueError"]
       ELSE IF StopDistance.n = 0 THEN [error |-> "ZeroDivisionError"]
       ELSE [quantity |-> Floor(Rat(risk_amount.n * StopDistance.d,
                                    risk_amount.d * StopDistance.n))]

\* the size check with < instead of <=
SizeRejected_Strict(quantity) == quantity < 0

\* if quantity <= 0: return
SizeRejected(quantity) == quantity <= 0

\* the position dict with the stop distance added to the entry price
NewPosition_StopAbove(quantity) ==
    [entry_price |-> current_price,
     quantity |-> quantity,
     stop_price |-> FAdd(current_price, StopDistance),
     target_price |-> FMul(current_price, FAdd(Num(1), config.profit_target_pct))]

\* the position dict built at lines 198-220 (entry_time left out)
NewPosition(quantity) ==
    [entry_price |-> current_price,
     quantity |-> quantity,
     stop_price |-> FSub(current_price, StopDistance),
     target_price |-> FMul(current_price, FAdd(Num(1), config.profit_target_pct))]

\* the entry path without the count of line 221
PlaceBracket_Uncounted(quantity, connected) ==
    IF connected
    THEN /\ orders' = orders + 3
         /\ entry_status' = "pending"
         /\ fill_price' = None
         /\ exit_status' = "working"
         /\ position' = NewPosition(quantity)
         /\ trades_today' = trades_today
         /\ ret' = "entered"
    ELSE /\ ret' = "ConnectionError"
         /\ UNCHANGED <<position, trades_today, orders, entry_status,
                        fill_price, exit_status>>

\* the three placeOrder calls; the first one raises when the session is down
PlaceBracket(quantity, connected) ==
    IF connected
    THEN /\ orders' = orders + 3
         /\ entry_status' = "pending"
         /\ fill_price' = None
         /\ exit_status' = "working"
         /\ position' = NewPosition(quantity)
         /\ trades_today' = trades_today + 1
         /\ ret' = "entered"
    ELSE /\ ret' = "ConnectionError"
         /\ UNCHANGED <<position, trades_today, orders, entry_status,
                        fill_price, exit_status>>

execute_trade(now, equity, connected) ==
    LET decision == EntryDecision(now)
        size == calculate_position_size(equity)
    IN /\ op' = "execute_trade"
       /\ UNCHANGED <<config, historical_data, current_price, adx, bollinger_lower,
                      rsi, atr, daily_pnl, last_trade, trade_log>>
       /\ UNCHANGED uiVars
       /\ IF decision # "True"
          THEN /\ ret' = IF decision = "False" THEN "no_entry" ELSE decision
               /\ UNCHANGED <<position, trades_today, orders, entry_status,
                              fill_price, exit_status>>
          ELSE IF "error" \in DOMAIN size
          THEN /\ ret' = size.error
               /\ UNCHANGED <<position, trades_today, orders, entry_status,
                              fill_price, exit_status>>
          ELSE IF SizeRejected(size.quantity)
          THEN /\ ret' = "no_size"
               /\ UNCHANGED <<position, trades_today, orders, entry_status,
                              fill_price, exit_status>>
          ELSE PlaceBracket(size.quantity, connected)

-----------------------------------------------------------------------------
(* manage_position and close_position *)

\* the pnl with entry and exit swapped
RealizedPnl_Swapped(exit_price) ==
    FMul(FSub(position.entry_price, exit_price), Num(position.quantity))

RealizedPnl(exit_price) ==
    FMul(FSub(exit_price, position.entry_price), Num(position.quantity))

\* the trade_details dict (duration left out); symbol is fixed per instance
TradeDetails(reason) ==
    [entry_price |-> position.entry_price,
     exit_price |-> current_price,
     quantity |-> position.quantity,
     pnl |-> RealizedPnl(current_price),
     reason |-> reason]

\* close_position keeping only the latest record in the log
Close_LogReplaced(reason) ==
    IF position = None
    THEN UNCHANGED <<position, daily_pnl, last_trade, trade_log>>
    ELSE /\ daily_pnl' = FAdd(daily_pnl, RealizedPnl(current_price))
         /\ trade_log' = <<TradeDetails(reason)>>
         /\ last_trade' = TradeDetails(reason)
         /\ position' = None

\* close_position storing the pnl of the trade instead of adding it
Close_PnlOverwritten(reason) ==
    IF position = None
    THEN UNCHANGED <<position, daily_pnl, last_trade, trade_log>>
    ELSE /\ daily_pnl' = RealizedPnl(current_price)
         /\ trade_log' = Append(trade_log, TradeDetails(reason))
         /\ last_trade' = TradeDetails(reason)
         /\ position' = None

\* the state change of close_position(reason)
Close(reason) ==
    IF position = None
    THEN UNCHANGED <<position, daily_pnl, last_trade, trade_log>>
    ELSE /\ daily_pnl' = FAdd(daily_pnl, RealizedPnl(current_price))
         /\ trade_log' = Append(trade_log, TradeDetails(reason))
         /\ last_trade' = TradeDetails(reason)
         /\ position' = None

close_position(reason) ==
    /\ op' = "close_position"
    /\ ret' = IF position = None THEN "no_position" ELSE reason
    /\ Close(reason)
    /\ UNCHANGED <<config, historical_data, current_price, adx, bollinger_lower,
                   rsi, atr, trades_today, orders, entry_status, fill_price,
                   exit_status>>
    /\ UNCHANGED uiVars

\* the exit check with the target tested before the stop
ExitCheck_TargetFirst ==
    IF FGe(current_price, position.target_price) THEN "target"
    ELSE IF FLe(current_price, position.stop_price) THEN "stop"
    ELSE "hold"

\* which exit manage_position takes: "stop", "target", or "hold"
ExitCheck ==
    IF FLe(current_price, position.stop_price) THEN "stop"
    ELSE IF FGe(current_price, position.target_price) THEN "target"
    ELSE "hold"

manage_position ==
    /\ op' = "manage_position"
    /\ UNCHANGED <<config, historical_data, current_price, adx, bollinger_lower,
                   rsi, atr, trades_today, orders, entry_status, fill_price,
                   exit_status>>
    /\ UNCHANGED uiVars
    /\ IF position = None
       THEN /\ ret' = "no_position"
            /\ UNCHANGED <<position, daily_pnl, last_trade, trade_log>>
       ELSE IF ExitCheck = "hold"
       THEN /\ ret' = "hold"
            /\ UNCHANGED <<position, daily_pnl, last_trade, trade_log>>
       ELSE /\ ret' = ExitCheck
            /\ Close(ExitCheck)

-----------------------------------------------------------------------------
(* The broker resolves the pending parent order; the strategy is not told *)

OrderFilled ==
    /\ entry_status = "pending"
    /\ entry_status' = "filled"
    /\ UNCHANGED <<config, position, historical_data, current_price, adx,
                   bollinger_lower, rsi, atr, trades_today, daily_pnl, last_trade,
                   trade_log, orders, fill_price, exit_status, op, ret>>
    /\ UNCHANGED uiVars

OrderRejected ==
    /\ entry_status = "pending"
    /\ entry_status' = "rejected"
    /\ UNCHANGED <<config, position, historical_data, current_price, adx,
                   bollinger_lower, rsi, atr, trades_today, daily_pnl, last_trade,
                   trade_log, orders, fill_price, exit_status, op, ret>>
    /\ UNCHANGED uiVars

\* The broker reports the execution price of the filled parent order (the
\* Trade object placeOrder returned at line 209 receives it; nothing reads it)
EntryFillReported(price) ==
    /\ entry_status = "filled"
    /\ fill_price = None
    /\ fill_price' = price
    /\ UNCHANGED <<config, position, historical_data, current_price, adx,
                   bollinger_lower, rsi, atr, trades_today, daily_pnl, last_trade,
                   trade_log, orders, entry_status, exit_status, op, ret>>
    /\ UNCHANGED uiVars

\* The take-profit and stop-loss orders placed at lines 210-211 carry no
\* parentId and no OCA group: they are live from the moment they are placed.
\* exit_status is their joint status: the broker fills one of them ...
ExitLegFilled ==
    /\ exit_status = "working"
    /\ exit_status' = "filled"
    /\ UNCHANGED <<config, position, historical_data, current_price, adx,
                   bollinger_lower, rsi, atr, trades_today, daily_pnl, last_trade,
                   trade_log, orders, entry_status, fill_price, op, ret>>
    /\ UNCHANGED uiVars

\* ... or rejects both
ExitLegRejected ==
    /\ exit_status = "working"
    /\ exit_status' = "rejected"
    /\ UNCHANGED <<config, position, historical_data, current_price, adx,
                   bollinger_lower, rsi, atr, trades_today, daily_pnl, last_trade,
                   trade_log, orders, entry_status, fill_price, op, ret>>
    /\ UNCHANGED uiVars

-----------------------------------------------------------------------------

UpdateMarketData ==
    /\ historical_data.rows < MaxBars
    /\ \E bar \in Bars, ind \in IndicatorValues : update_market_data(bar, ind)
EvaluateEntry == \E now \in Clock : evaluate_entry(now)
ExecuteTrade ==
    \E now \in Clock, equity \in Equities, connected \in Connected :
        execute_trade(now, equity, connected)
ManagePosition == manage_position
ClosePosition == \E reason \in {"stop", "target"} : close_position(reason)

Next ==
    \/ UpdateMarketData
    \/ EvaluateEntry
    \/ ExecuteTrade
    \/ ManagePosition
    \/ ClosePosition
    \/ OrderFilled
    \/ OrderRejected

Spec == Init /\ [][Next]_vars

\* the strategy together with what the broker does with the three orders
ReportEntryFill == \E price \in FillPrices : EntryFillReported(price)

NextBroker ==
    \/ Next
    \/ ReportEntryFill
    \/ ExitLegFilled
    \/ ExitLegRejected

SpecBroker == Init /\ [][NextBroker]_vars

-----------------------------------------------------------------------------
(* calculate_position_size on its own, over a wider range of inputs *)

\* stop_loss_atr_multiplier and risk_per_trade_pct of the configurations
SizeMultipliers == {Rat(1, 2), Rat(3, 2), Num(2)}
SizeRisks == {Rat(1, 100), Rat(1, 40)}
SizeConfigs ==
    {With(With(SmallConfig, "stop_loss_atr_multiplier", m), "risk_per_trade_pct", r) :
        m \in SizeMultipliers, r \in SizeRisks}
\* atr[-1] past its lookback
SizeVolatilities == {Num(0), Rat(1, 2), Num(1), Num(2), Rat(5, 2), Num(3)}
\* accountSummary('TotalCashValue')
SizeEquities == {Num(-1000), Num(0), Num(1500), Num(3000), Rat(199999, 2), Num(100000)}

\* an instance past its warm-up, flat, with the indicators of a range-bound
\* market and some ATR
InitSize ==
    /\ config \in {_validate_config(c) : c \in SizeConfigs}
    /\ position = None
    /\ historical_data = [rows |-> MaxBars, timestamp |-> 0]
    /\ current_price = Num(100)
    /\ adx = RangeBound.adx
    /\ bollinger_lower = RangeBound.lower
    /\ rsi = RangeBound.rsi
    /\ atr \in SizeVolatilities
    /\ trades_today = 0
    /\ daily_pnl = Num(0)
    /\ last_trade = None
    /\ trade_log = <<>>
    /\ orders = 0
    /\ entry_status = "none"
    /\ fill_price = None
    /\ exit_status = "none"
    /\ ui = "none"
    /\ ib_connected = FALSE
    /\ ui_strategy = 0
    /\ threads = <<>>
    /\ stop_requested = {}
    /\ op = "update_market_data"
    /\ ret = "None"

\* a call of calculate_position_size with the account value the broker
\* reports; ret is what it returns or raises
position_size(equity) ==
    /\ op' = "calculate_position_size"
    /\ ret' = calculate_position_size(equity)
    /\ UNCHANGED strategyVars
    /\ UNCHANGED uiVars

CalculatePositionSize == \E equity \in SizeEquities : position_size(equity)

NextSize == CalculatePositionSize

SpecSize == InitSize /\ [][NextSize]_vars

-----------------------------------------------------------------------------
(* update_market_data on its own, fed until the window stops growing *)

\* the small configuration, and the same with a long atr_period
WindowConfigs == {SmallConfig, With(SmallConfig, "atr_period", LongAtrPeriod)}

InitWindow ==
    /\ config \in {_validate_config(c) : c \in WindowConfigs}
    /\ position = None
    /\ historical_data = [rows |-> 0, timestamp |-> None]
    /\ current_price = None
    /\ adx = None
    /\ bollinger_lower = None
    /\ rsi = None
    /\ atr = None
    /\ trades_today = 0
    /\ daily_pnl = Num(0)
    /\ last_trade = None
    /\ trade_log = <<>>
    /\ orders = 0
    /\ entry_status = "none"
    /\ fill_price = None
    /\ exit_status = "none"
    /\ ui = "none"
    /\ ib_connected = FALSE
    /\ ui_strategy = 0
    /\ threads = <<>>
    /\ stop_requested = {}
    /\ op = "__init__"
    /\ ret = "None"

\* update_market_data with any bar, as often as the feed delivers one
FeedBar == \E bar \in Bars, ind \in IndicatorValues : update_market_data(bar, ind)

NextWindow == FeedBar

SpecWindow == InitWindow /\ [][NextWindow]_vars

-----------------------------------------------------------------------------
(* StrategyUI: src/strategy_ui_old.py ("old") and src/strategy_ui.py ("new"). *)
(* Button callbacks run one at a time on the Tk main thread; the old class    *)
(* starts a thread per strategy, the new one calls run() inside the callback. *)

\* StrategyUI.__init__: self.ib = IB(), self.strategy = None; config stands
\* for the values in the parameter form
InitUI ==
    /\ InitStrategy
    /\ ui \in {"old", "new"}
    /\ ib_connected = FALSE
    /\ ui_strategy = 0
    /\ threads = <<>>
    /\ stop_requested = {}

\* the threads still inside run()
Running == {k \in DOMAIN threads : threads[k] \in {"started", "fetching"}}

\* connect_ibkr: self.ib.connect succeeds, or raises and is reported
connect_ibkr(ok) ==
    /\ ui # "none"
    /\ ib_connected' = (ib_connected \/ ok)
    /\ op' = "connect_ibkr"
    /\ ret' = IF ok THEN "Connected" ELSE "Connection Error"
    /\ UNCHANGED <<ui, ui_strategy, threads, stop_requested>>
    /\ UNCHANGED strategyVars

\* disconnect_ibkr: the new class does nothing when the session is down
disconnect_ibkr ==
    /\ ui # "none"
    /\ ib_connected' = FALSE
    /\ op' = "disconnect_ibkr"
    /\ ret' = IF ui = "new" /\ ~ib_connected THEN "None" ELSE "Disconnected"
    /\ UNCHANGED <<ui, ui_strategy, threads, stop_requested>>
    /\ UNCHANGED strategyVars

\* old start_strategy.  get_config converts every field, the symbol included,
\* with int() or float(): a symbol that is not a number ends the call
\* (lines 129-131, 141-142).  Otherwise a new RangeStrategy replaces
\* self.strategy and a new daemon thread is started on its run(); a thread
\* started earlier is neither stopped nor joined.
start_strategy_old(symbol_is_number) ==
    /\ ui = "old"
    /\ op' = "start_strategy"
    /\ UNCHANGED <<ui, ib_connected, stop_requested>>
    /\ UNCHANGED strategyVars
    /\ IF ~ib_connected
       THEN ret' = "Not connected" /\ UNCHANGED <<ui_strategy, threads>>
       ELSE IF ~symbol_is_number
       THEN ret' = "Invalid Value" /\ UNCHANGED <<ui_strategy, threads>>
       ELSE /\ Len(threads) < MaxThreads
            /\ ui_strategy' = Len(threads) + 1
            /\ threads' = Append(threads, "started")
            /\ ret' = "Strategy Started"

\* old stop_strategy: RangeStrategy has no stop method, so the call raises
\* AttributeError into the Tk callback handler; the thread is not told
stop_strategy_old ==
    /\ ui = "old"
    /\ op' = "stop_strategy"
    /\ UNCHANGED <<ui, ib_connected, ui_strategy, threads>>
    /\ UNCHANGED strategyVars
    /\ IF ui_strategy # 0
       THEN ret' = "AttributeError" /\ stop_requested' = stop_requested \cup {ui_strategy}
       ELSE ret' = "None" /\ UNCHANGED stop_requested

\* new start_strategy: run() is called on the main thread inside the
\* callback.  Its first cycle ends at line 273 of range_strategy.py (the name
\* `bar` is not defined), or earlier if reqHistoricalData raises; either
\* exception is caught at line 170 and logged as a failed start, with
\* self.strategy left set.
start_strategy_new(parameters_valid) ==
    /\ ui = "new"
    /\ op' = "start_strategy"
    /\ UNCHANGED <<ui, ib_connected, threads, stop_requested>>
    /\ UNCHANGED strategyVars
    /\ IF ~ib_connected
       THEN ret' = "Not connected" /\ UNCHANGED ui_strategy
       ELSE IF ~parameters_valid
       THEN ret' = "Validation Error" /\ UNCHANGED ui_strategy
       ELSE ret' = "Failed to start strategy" /\ ui_strategy' = 1

\* new stop_strategy: RangeStrategy has no disconnect method; the
\* AttributeError is caught and logged, self.strategy stays set
stop_strategy_new ==
    /\ ui = "new"
    /\ op' = "stop_strategy"
    /\ UNCHANGED <<ui, ib_connected, ui_strategy, threads>>
    /\ UNCHANGED strategyVars
    /\ IF ui_strategy # 0
       THEN ret' = "AttributeError" /\ stop_requested' = stop_requested \cup {ui_strategy}
       ELSE ret' = "No active strategy" /\ UNCHANGED stop_requested

\* run(), lines 262-272: thread k enters `while True` (there is no test of
\* any stop flag) and calls reqHistoricalData, which blocks
run_request(k) ==
    /\ threads[k] = "started"
    /\ threads' = [threads EXCEPT ![k] = "fetching"]
    /\ UNCHANGED <<ui, ib_connected, ui_strategy, stop_requested, op, ret>>
    /\ UNCHANGED strategyVars

\* run(), lines 264-273: reqHistoricalData raises, or it returns and line 273
\* raises NameError on `bar`; the thread ends with the exception
run_raise(k, fetched) ==
    /\ threads[k] = "fetching"
    /\ threads' = [threads EXCEPT ![k] = IF fetched THEN "NameError"
                                         ELSE "RequestError"]
    /\ UNCHANGED <<ui, ib_connected, ui_strategy, stop_requested, op, ret>>
    /\ UNCHANGED strategyVars

ConnectIbkr == \E ok \in BOOLEAN : connect_ibkr(ok)
DisconnectIbkr == disconnect_ibkr
StartStrategyOld == \E symbol_is_number \in BOOLEAN : start_strategy_old(symbol_is_number)
StopStrategyOld == stop_strategy_old
StartStrategyNew == \E parameters_valid \in BOOLEAN : start_strategy_new(parameters_valid)
StopStrategyNew == stop_strategy_new
RunRequest == \E k \in DOMAIN threads : run_request(k)
RunRaise == \E k \in DOMAIN threads, fetched \in BOOLEAN : run_raise(k, fetched)

NextUI ==
    \/ ConnectIbkr
    \/ DisconnectIbkr
    \/ StartStrategyOld
    \/ StopStrategyOld
    \/ StartStrategyNew
    \/ StopStrategyNew
    \/ RunRequest
    \/ RunRaise

SpecUI == InitUI /\ [][NextUI]_vars

-----------------------------------------------------------------------------
(* Properties *)

\* conditions 2-4 of evaluate_entry hold on the latest indicators
IndicatorsAllow ==
    /\ adx # None
    /\ ~FGt(adx, config.adx_threshold)
    /\ FLe(current_price, bollinger_lower)
    /\ ~FGt(rsi, config.rsi_oversold)

LossLimitReached == FLe(daily_pnl, FNeg(config.daily_loss_limit_pct))

InSession(now) == config.trade_start_time <= now /\ now <= config.trade_end_time

\* C1: while a Position exists, evaluate_entry returns False at every clock
\* time and whatever the indicators, throttles and price are; execute_trade
\* then submits nothing and changes nothing, so a live Position is only ever
\* kept or cleared, never replaced by a second one.
C1_NoEntryWhilePositionExists ==
    [][position # None =>
        /\ (EvaluateEntry => ret' = "False")
        /\ (ExecuteTrade =>
                /\ ret' = "no_entry"
                /\ UNCHANGED <<position, trades_today, orders, entry_status>>)
        /\ position' \in {position, None}]_vars

\* a refused execute_trade with a Position live although every other entry
\* condition held
C1_Witness ==
    /\ position # None
    /\ op = "execute_trade"
    /\ ret = "no_entry"
    /\ IndicatorsAllow
    /\ trades_today < config.max_trades_per_day
    /\ ~LossLimitReached

\* the lifecycle state of section 4.4, read off the broker's status of the
\* entry order and the recorded position (close_position submits no exit
\* order, so ExitPending is never occupied)
MachineState ==
    IF entry_status = "pending" THEN "EntryPending"
    ELSE IF entry_status = "filled" /\ position # None THEN "Open"
    ELSE "Flat"

\* C2: the Position is non-absent exactly in the states Open and ExitPending;
\* in particular none exists before the entry fill is confirmed.
C2_PositionIffOpenOrExitPending ==
    (position # None) <=> (MachineState \in {"Open", "ExitPending"})

\* C3: once trades_today equals max_trades_per_day, every entry evaluation
\* returns False whatever the indicators, price, clock and daily_pnl are, no
\* Position is opened, and (no reset existing) the count stays there.
C3_TradeLimitLocksOut ==
    [][trades_today = config.max_trades_per_day =>
        /\ (EvaluateEntry => ret' = "False")
        /\ (ExecuteTrade =>
                /\ ret' = "no_entry"
                /\ UNCHANGED <<position, orders, entry_status>>)
        /\ (position = None => position' = None)
        /\ trades_today' = trades_today]_vars

\* flat, at the trade limit, every other condition met, and entry refused
C3_Witness ==
    /\ trades_today = config.max_trades_per_day
    /\ position = None
    /\ op = "execute_trade"
    /\ ret = "no_entry"
    /\ IndicatorsAllow
    /\ ~LossLimitReached

\* C4: once daily_pnl <= -daily_loss_limit_pct (the two numbers compared as
\* they are), every entry evaluation returns False, no Position is opened and
\* daily_pnl stays where it is; while daily_pnl > -daily_loss_limit_pct and
\* the other six conditions hold, evaluate_entry returns True.
C4_LossLimitLocksOut ==
    /\ [][LossLimitReached =>
            /\ (EvaluateEntry => ret' = "False")
            /\ (ExecuteTrade =>
                    /\ ret' = "no_entry"
                    /\ UNCHANGED <<position, trades_today, orders, entry_status>>)
            /\ position' = None
            /\ daily_pnl' = daily_pnl]_vars
    /\ [](/\ position = None
          /\ IndicatorsAllow
          /\ trades_today < config.max_trades_per_day
          /\ ~LossLimitReached
          => \A now \in Clock : InSession(now) => EntryDecision(now) = "True")

\* entry refused with daily_pnl exactly at -daily_loss_limit_pct, every other
\* condition met
C4_Witness ==
    /\ daily_pnl = FNeg(config.daily_loss_limit_pct)
    /\ position = None
    /\ op = "execute_trade"
    /\ ret = "no_entry"
    /\ IndicatorsAllow
    /\ trades_today < config.max_trades_per_day

\* C5: the first bar of a new calendar day (relative to the previous bar)
\* leaves trades_today and daily_pnl at zero; a bar of the same day does not
\* lower trades_today.
C5_ResetOnNewDay ==
    [][(UpdateMarketData /\ historical_data.rows > 0) =>
        IF Day(historical_data'.timestamp) # Day(historical_data.timestamp)
        THEN trades_today' = 0 /\ daily_pnl' = Num(0)
        ELSE trades_today' >= trades_today]_vars

\* C6: when calculate_position_size is reached with stop_distance <= 0, the
\* call ends with an InvalidRisk error (and not with a division by zero).
C6_ZeroVolatilityIsInvalidRisk ==
    (/\ op = "execute_trade"
     /\ ret \notin {"no_entry", "TypeError"}
     /\ FLe(StopDistance, Num(0)))
    => ret = "InvalidRisk"

\* C7: every Position has an integer quantity > 0; an execute_trade whose
\* computed size is <= 0 returns without an error, submits no order, creates
\* no Position and leaves trades_today alone.
C7_QuantityPositive ==
    /\ [](position # None => position.quantity \in Nat /\ position.quantity > 0)
    /\ [][ExecuteTrade =>
            /\ (ret' = "no_size" =>
                    UNCHANGED <<position, trades_today, orders, entry_status>>)
            /\ (position' # position =>
                    ret' = "entered" /\ position'.quantity > 0)]_vars

\* an entry that passed evaluate_entry and was dropped for its size
C7_Witness ==
    /\ op = "execute_trade"
    /\ ret = "no_size"
    /\ position = None
    /\ trades_today = 0
    /\ orders = 0

\* C8: with a Position open, manage_position exits with reason stop whenever
\* current_price <= stop_price (also when current_price >= target_price),
\* with reason target only when the stop test fails and
\* current_price >= target_price, and does nothing otherwise.
C8_StopBeforeTarget ==
    [][(ManagePosition /\ position # None) =>
        IF FLe(current_price, position.stop_price)
        THEN ret' = "stop" /\ position' = None /\ last_trade'.reason = "stop"
        ELSE IF FGe(current_price, position.target_price)
        THEN ret' = "target" /\ position' = None /\ last_trade'.reason = "target"
        ELSE ret' = "hold" /\ UNCHANGED <<position, daily_pnl, last_trade>>]_vars

\* a stop exit taken at a price that was also at or above the target
C8_Witness ==
    /\ op = "manage_position"
    /\ ret = "stop"
    /\ last_trade # None
    /\ last_trade.reason = "stop"
    /\ FGe(last_trade.exit_price,
           FMul(last_trade.entry_price, FAdd(Num(1), config.profit_target_pct)))

\* C9: a close computes (exit_price - entry_price) * quantity of the Position
\* being closed, adds exactly that to daily_pnl, records one trade carrying
\* these values and the reason, and leaves the Position absent; entry 100,
\* exit 103, quantity 10 gives 30.
C9_CloseRecordsRealizedPnl ==
    /\ [][(position # None /\ position' = None) =>
            LET pnl == FMul(FSub(current_price, position.entry_price),
                            Num(position.quantity))
            IN /\ (ManagePosition \/ ClosePosition)
               /\ ret' \in {"stop", "target"}
               /\ daily_pnl' = FAdd(daily_pnl, pnl)
               /\ last_trade' = [entry_price |-> position.entry_price,
                                 exit_price |-> current_price,
                                 quantity |-> position.quantity,
                                 pnl |-> pnl,
                                 reason |-> ret']
               /\ trades_today' = trades_today]_vars
    /\ [](/\ last_trade # None
          /\ last_trade.entry_price = Num(100)
          /\ last_trade.exit_price = Num(103)
          /\ last_trade.quantity = 10
          => last_trade.pnl = Num(30))

\* the round trip 100 -> 103 with quantity 10, closed on its target
C9_Witness ==
    /\ position = None
    /\ op = "manage_position"
    /\ last_trade = [entry_price |-> Num(100), exit_price |-> Num(103),
                     quantity |-> 10, pnl |-> Num(30), reason |-> "target"]
    /\ daily_pnl = Num(30)

\* C10: when the broker rejects the entry order, no Position is recorded for
\* it.
C10_RejectedEntryLeavesFlat ==
    entry_status = "rejected" => position = None

\* C11: once the broker has rejected the exit orders of a live Position, the
\* Position, daily_pnl and the trade record stay as they are: no exit fill can
\* follow, and the Position is cleared only on a confirmed exit fill.
C11_RejectedExitKeepsPosition ==
    [][(position # None /\ exit_status = "rejected") =>
        UNCHANGED <<position, daily_pnl, last_trade>>]_vars

\* the seven entry conditions of section 4.2, on the latest indicators
AllSeven(now) ==
    /\ position = None
    /\ adx # None
    /\ FLe(adx, config.adx_threshold)
    /\ FLe(current_price, bollinger_lower)
    /\ FLe(rsi, config.rsi_oversold)
    /\ InSession(now)
    /\ trades_today < config.max_trades_per_day
    /\ FGt(daily_pnl, FNeg(config.daily_loss_limit_pct))

\* C12: evaluate_entry returns True exactly when all seven conditions hold
\* (values equal to the thresholds admitted) and False when any one fails.
C12_EntryExactlyWhenAllSeven ==
    [][\A now \in Clock :
        evaluate_entry(now) =>
            ret' = IF AllSeven(now) THEN "True" ELSE "False"]_vars

\* an indicator is None (nothing calculated yet) or NaN (inside its lookback)
AnyUndefined ==
    \/ adx = None
    \/ IsNaN(adx)
    \/ IsNaN(bollinger_lower)
    \/ IsNaN(rsi)
    \/ IsNaN(atr)

\* C13: while any indicator is undefined, evaluate_entry returns False (it
\* raises nothing) and execute_trade decides nothing: no order is submitted,
\* and the position, trades_today and daily_pnl are unchanged.
C13_UndefinedIndicatorsNoDecision ==
    [][AnyUndefined =>
        /\ (EvaluateEntry => ret' = "False")
        /\ (ExecuteTrade =>
                /\ ret' = "no_entry"
                /\ UNCHANGED <<position, trades_today, daily_pnl, orders,
                               entry_status>>)]_vars

\* the largest period over all four indicators
LargestPeriodOfAll == Max2(LargestPeriod, config.atr_period)

Defined(x) == x # None /\ ~IsNaN(x)

\* C14: while fewer bars are retained than the largest of the four periods no
\* indicator is defined; from that many bars on all four are, ATR included.
C14_DefinedFromLargestPeriod ==
    IF historical_data.rows < LargestPeriodOfAll
    THEN ~Defined(adx) /\ ~Defined(bollinger_lower) /\ ~Defined(rsi) /\ ~Defined(atr)
    ELSE Defined(adx) /\ Defined(bollinger_lower) /\ Defined(rsi) /\ Defined(atr)

\* C15: a bar whose timestamp is not strictly greater than that of the last
\* accepted bar is dropped: the window, current_price and the indicators stay
\* as they were.
C15_OutOfOrderBarDropped ==
    [][\A bar \in Bars, ind \in IndicatorValues :
        (/\ historical_data.rows > 0
         /\ bar.time <= historical_data.timestamp
         /\ update_market_data(bar, ind))
        => UNCHANGED <<historical_data, current_price, adx, bollinger_lower,
                       rsi, atr>>]_vars

\* C16: once the broker has reported the fill price of the entry order, the
\* Position entered with it carries that price as entry_price, and the pnl
\* of its trade record is (exit_price - fill price) * quantity.
C16_EntryPriceIsFillPrice ==
    /\ (position # None /\ fill_price # None
            => position.entry_price = fill_price)
    /\ (position = None /\ last_trade # None /\ fill_price # None
            => last_trade.pnl = FMul(FSub(last_trade.exit_price, fill_price),
                                     Num(last_trade.quantity)))

\* C17: a stop request is accepted (Stop Strategy on a held strategy raises
\* nothing), and once it has been made for an instance, the loop of that
\* instance starts no further cycle.
C17_StopEndsLoop ==
    [][/\ ((StopStrategyOld \/ StopStrategyNew) /\ ui_strategy # 0
            => ret' # "AttributeError")
       /\ \A k \in stop_requested \cap DOMAIN threads :
            ~(threads[k] = "started" /\ threads'[k] = "fetching")]_vars

\* C18: at most one loop is running at any time, however often Start
\* Strategy is pressed.
C18_OneLoopAtATime == Cardinality(Running) <= 1

\* floor((equity * risk) / (volatility * multiplier)) in integer arithmetic,
\* for a positive divisor
SpecQuantity(equity, risk, volatility, multiplier) ==
    (equity.n * risk.n * volatility.d * multiplier.d)
        \div (equity.d * risk.d * volatility.n * multiplier.n)

\* C19: with stop_distance = atr * stop_loss_atr_multiplier > 0,
\* calculate_position_size returns
\* floor((equity * risk_per_trade_pct) / stop_distance); equity 100000, risk
\* 0.01, ATR 2 and multiplier 1.5 give 333.
C19_SizeIsFlooredRiskOverStop ==
    [][\A equity \in SizeEquities :
        (position_size(equity) /\ FGt(StopDistance, Num(0))) =>
            /\ ret' = [quantity |->
                         SpecQuantity(equity, config.risk_per_trade_pct, atr,
                                      config.stop_loss_atr_multiplier)]
            /\ (/\ equity = Num(100000)
                /\ config.risk_per_trade_pct = Rat(1, 100)
                /\ atr = Num(2)
                /\ config.stop_loss_atr_multiplier = Rat(3, 2)
                => ret' = [quantity |-> 333])]_vars

\* the size computed for equity 100000, risk 0.01, ATR 2, multiplier 1.5
C19_Witness ==
    /\ op = "calculate_position_size"
    /\ ret = [quantity |-> 333]
    /\ config.risk_per_trade_pct = Rat(1, 100)
    /\ atr = Num(2)
    /\ config.stop_loss_atr_multiplier = Rat(3, 2)

\* the steps of the lifecycle of section 4.4, the two rejection reverts
\* included; Open -> Flat stands for an exit requested and filled within one
\* call
LifecycleSteps ==
    {<<"Flat", "EntryPending">>, <<"EntryPending", "Open">>,
     <<"EntryPending", "Flat">>, <<"Open", "ExitPending">>,
     <<"ExitPending", "Flat">>, <<"ExitPending", "Open">>, <<"Open", "Flat">>}

\* C20: the lifecycle state changes only along Flat -> EntryPending -> Open
\* -> ExitPending -> Flat or a rejection revert; a Position is closed only
\* from Open, no entry is requested from Open or ExitPending, and a Position
\* comes into being only with a confirmed entry fill.
C20_LifecycleOrder ==
    [][/\ (MachineState' # MachineState
            => <<MachineState, MachineState'>> \in LifecycleSteps)
       /\ (position # None /\ position' = None => MachineState = "Open")
       /\ (orders' > orders => MachineState \notin {"Open", "ExitPending"})
       /\ (position = None /\ position' # None => entry_status' = "filled")]_vars

\* C21: after every update at most max(adx_period, bollinger_ma_period,
\* rsi_period, atr_period) + 20 bars are retained, and the cap leaves room
\* for the ATR: once an update drops the oldest bar (the window is full), the
\* ATR is defined.
C21_WindowCoversVolatility ==
    [][FeedBar =>
        /\ historical_data'.rows <= LargestPeriodOfAll + WindowMargin
        /\ (historical_data'.rows = historical_data.rows => Defined(atr'))]_vars

\* C22: trades_today changes only in an entry, by exactly one; a close leaves
\* it alone; an execute_trade that does not enter leaves trades_today and
\* daily_pnl alone; and an entry the broker rejected is not in the count
\* (three orders are placed per entry).
C22_TradesCountedAtEntryOnly ==
    /\ [][/\ (trades_today' # trades_today => ExecuteTrade /\ ret' = "entered")
           /\ (ExecuteTrade /\ ret' = "entered" => trades_today' = trades_today + 1)
           /\ (ManagePosition \/ ClosePosition => trades_today' = trades_today)
           /\ (ExecuteTrade /\ ret' # "entered"
                    => UNCHANGED <<trades_today, daily_pnl>>)]_vars
    /\ [](entry_status = "rejected" => 3 * trades_today < orders)

\* the steps of one cycle of section 4.5 as positions of the loop: the bar
\* is fetched (or the feed fails), the indicators are updated with it, the
\* exit check runs, entry is evaluated if the machine is flat after it, the
\* loop sleeps and starts over
CycleSteps ==
    {<<"started", "fetching">>, <<"fetching", "RequestError">>,
     <<"fetching", "updated">>, <<"updated", "exit_checked">>,
     <<"exit_checked", "entry_evaluated">>, <<"exit_checked", "sleeping">>,
     <<"entry_evaluated", "sleeping">>, <<"sleeping", "started">>}

\* C23: every loop moves through its cycle in the order update with the new
\* bar, exit check, entry evaluation (only if flat after the exit check).
C23_CycleOrder ==
    [][\A k \in DOMAIN threads :
        threads'[k] # threads[k] => <<threads[k], threads'[k]>> \in CycleSteps]_vars

\* C24: a step that closes a Position appends exactly one record to the log,
\* the one of that Position with reason stop or target, and keeps every
\* earlier record as it was; no other step changes the log.
C24_OneRecordPerClose ==
    [][IF position # None /\ position' = None
       THEN /\ Len(trade_log') = Len(trade_log) + 1
            /\ SubSeq(trade_log', 1, Len(trade_log)) = trade_log
            /\ LET record == trade_log'[Len(trade_log')]
               IN /\ record.reason \in {"stop", "target"}
                  /\ record.entry_price = position.entry_price
                  /\ record.quantity = position.quantity
                  /\ record.exit_price = current_price
       ELSE trade_log' = trade_log]_vars

\* two Positions closed: both records are in the log, in order
C24_Witness ==
    /\ Len(trade_log) = 2
    /\ position = None
    /\ trade_log[2] = last_trade
    /\ trade_log[1] # trade_log[2]

\* C25: trades_today stays within 0..max_trades_per_day; it goes up by one
\* exactly in the steps that open a Position and never changes otherwise, so it
\* equals the number of Positions opened; and the Positions opened exceed the
\* Positions closed (the records in the log) by one while a Position exists and
\* by none while there is none.
C25_TradesTodayCountsOpenedPositions ==
    /\ [](/\ 0 <= trades_today
          /\ trades_today <= config.max_trades_per_day
          /\ trades_today - Len(trade_log) = (IF position = None THEN 0 ELSE 1))
    /\ [][IF position = None /\ position' # None
           THEN trades_today' = trades_today + 1
           ELSE trades_today' = trades_today]_vars

\* the daily limit reached with the last Position still open and the earlier
\* ones closed
C25_Witness ==
    /\ trades_today = config.max_trades_per_day
    /\ trades_today = MaxTrades
    /\ position # None
    /\ Len(trade_log) = MaxTrades - 1

\* the configured risk fraction, stop multiplier and profit target are positive
PositiveRiskParameters ==
    /\ FGt(config.risk_per_trade_pct, Num(0))
    /\ FGt(config.stop_loss_atr_multiplier, Num(0))
    /\ FGt(config.profit_target_pct, Num(0))

\* C26: with positive risk fraction, stop multiplier and profit target, every
\* Position the entry path creates has stop_price < entry_price < target_price,
\* stop_price being entry_price - volatility * multiplier and target_price
\* entry_price * (1 + profit_target_pct), and at no price do the stop test and
\* the target test of manage_position hold together.
C26_StopBelowEntryBelowTarget ==
    /\ [](position # None /\ PositiveRiskParameters =>
            /\ FGt(position.entry_price, position.stop_price)
            /\ FGt(position.target_price, position.entry_price)
            /\ \A price \in Prices :
                    ~(FLe(price, position.stop_price) /\ FGe(price, position.target_price)))
    /\ [][position = None /\ position' # None =>
            /\ ret' = "entered"
            /\ FGt(current_price, Num(0))
            /\ position'.entry_price = current_price
            /\ position'.stop_price =
                    FSub(current_price, FMul(atr, config.stop_loss_atr_multiplier))
            /\ position'.target_price =
                    FMul(current_price, FAdd(Num(1), config.profit_target_pct))]_vars

\* a Position entered at 100 with ATR 2, the default multiplier 1.5 and the
\* default target 1.5%: stop 97, target 101.5
C26_Witness ==
    /\ position # None
    /\ PositiveRiskParameters
    /\ position.entry_price = Num(100)
    /\ position.stop_price = Num(97)
    /\ FGt(position.target_price, Num(100))
    /\ op = "execute_trade"
    /\ ret = "entered"

\* the pnl fields of the records added up, in the order they were written
RECURSIVE SumOfPnl(_)
SumOfPnl(records) ==
    IF records = <<>> THEN Num(0)
    ELSE FAdd(SumOfPnl(SubSeq(records, 1, Len(records) - 1)),
              records[Len(records)].pnl)

\* C27: daily_pnl is the sum of the realized pnl of every Position closed since
\* the counters were initialised; it changes only in a step that closes a
\* Position, by that Position's pnl, and bar updates, entry evaluations and
\* entries leave it as it is.
C27_DailyPnlIsSumOfClosedTrades ==
    /\ [](daily_pnl = SumOfPnl(trade_log))
    /\ [][/\ (daily_pnl' # daily_pnl =>
                /\ ClosePosition \/ ManagePosition
                /\ position # None /\ position' = None)
           /\ (position # None /\ position' = None =>
                daily_pnl' = FAdd(daily_pnl,
                                  FMul(FSub(current_price, position.entry_price),
                                       Num(position.quantity))))
           /\ (daily_pnl' = daily_pnl
                \/ ~(UpdateMarketData \/ EvaluateEntry \/ ExecuteTrade))]_vars

\* two Positions closed, each with a gain or a loss: the total is neither zero
\* nor the pnl of the latest trade
C27_Witness ==
    /\ Len(trade_log) = 2
    /\ trade_log[1].pnl # Num(0)
    /\ trade_log[2].pnl # Num(0)
    /\ daily_pnl # trade_log[2].pnl
    /\ daily_pnl # Num(0)

====
